---- MODULE Spec2Model ----
(***************************************************************************)
(* State-machine model of supervision/assets/downloader.py:                *)
(* download_assets (fetch / verify / repair) and is_md5_hash_matching.     *)
(*                                                                         *)
(* The local filesystem is a map from file name to file state.  Asset      *)
(* names are plain relative file names and the working directory never     *)
(* changes, so Path(filename), os.path.exists(filename), os.remove(        *)
(* filename) and Path(filename).expanduser().resolve() all denote the      *)
(* entry fs[filename].                                                     *)
(*                                                                         *)
(* Every Python statement with an externally visible effect is one         *)
(* action, labelled by its source line (pc = "L71" is "about to execute    *)
(* line 71").  All per-call state is indexed by the calling process.       *)
(***************************************************************************)
EXTENDS Integers, Sequences, FiniteSets, TLC

\* ---------------------------------------------------------------- bounds
\* longest file content / response body considered
MaxLen == 1
\* cap on nested download_assets frames of one top-level call
MaxDepth == 3

\* byte values
Bytes == {0, 1}

RECURSIVE SeqsUpTo(_)
SeqsUpTo(n) ==
    IF n = 0 THEN {<<>>}
    ELSE LET shorter == SeqsUpTo(n - 1)
         IN  shorter \cup {Append(s, b) : s \in {t \in shorter : Len(t) = n - 1}, b \in Bytes}

\* every byte string a file or a response body can hold
Contents == SeqsUpTo(MaxLen)

\* ------------------------------------------------------------ filesystem
Absent == [exists |-> FALSE, data |-> <<>>]
File(data) == [exists |-> TRUE, data |-> data]
FileStates == {Absent} \cup {File(c) : c \in Contents}

\* ------------------------------------------------- registry (assets/list)
VEHICLES == "vehicles.mp4"
PEOPLE_WALKING == "people-walking.jpg"
\* a name that is not a key of ASSETS
NONEXISTENT == "nonexistent.ext"

\* ASSETS.keys(), in insertion order
AssetKeys == <<VEHICLES, PEOPLE_WALKING>>
Registered == {AssetKeys[i] : i \in 1..Len(AssetKeys)}
Paths == Registered \cup {NONEXISTENT}

\* the enum members of VideoAssets / ImageAssets and plain strings, as
\* download_assets accepts them: isAssets is isinstance(asset_name, Assets)
AssetArg(f) == [isAssets |-> TRUE, filename |-> f, str |-> ""]
StrArg(s) == [isAssets |-> FALSE, filename |-> "", str |-> s]
Args == {AssetArg(f) : f \in Registered} \cup {StrArg(s) : s \in Paths}

Url(f) ==
    CASE f = VEHICLES -> "https://media.roboflow.com/supervision/video-examples/vehicles.mp4"
      [] f = PEOPLE_WALKING -> "https://media.roboflow.com/supervision/image-examples/people-walking.jpg"

\* the bytes the catalogue was built from, per asset
Published(f) ==
    CASE f = VEHICLES -> <<1>>
      [] f = PEOPLE_WALKING -> <<0>>

HexDigits == <<"0", "1", "2", "3", "4", "5", "6", "7", "8", "9", "a", "b", "c", "d", "e", "f">>

RECURSIVE hexdigest(_)
\* lowercase hexadecimal rendering of a digest value
hexdigest(n) ==
    IF n < 16 THEN <<HexDigits[n + 1]>>
    ELSE Append(hexdigest(n \div 16), HexDigits[(n % 16) + 1])

RECURSIVE hash_new(_)
\* MD5 over the whole content.  MD5 has no collisions among the byte
\* strings of the lengths considered here; the model keeps exactly that
\* property with a positional encoding that is injective on Contents.
hash_new(data) ==
    IF data = <<>> THEN 1
    ELSE hash_new(SubSeq(data, 1, Len(data) - 1)) * Cardinality(Bytes) + data[Len(data)]

\* ASSETS[f] = (url, md5): Python's [0] and [1] are [1] and [2] here
ASSETS == [f \in Registered |-> <<Url(f), hexdigest(hash_new(Published(f)))>>]

\* ------------------------------------------------------------- processes
Procs == {1, 2}
Main == 1

VARIABLES
    fs,         \* file name -> file state (shared by all processes)
    pc,         \* per process: source line about to execute
    filename,   \* per process: local `filename` (line 67)
    depth,      \* per process: number of live download_assets frames
    response,   \* per process: what get() returned (line 71)
    raw_resp,   \* per process: bytes of the response stream not yet copied
    handles,    \* per process: open resources of the call
    matching,   \* per process: value returned by is_md5_hash_matching
    log,        \* per process: I/O steps of the current top-level call
    result,     \* per process: value returned by the top-level call
    error,      \* per process: exception that ended the top-level call
    before,     \* per process: state of the call's file when the call began
    prev,       \* per process: how the preceding call on the same name ended
    original_md5_hash   \* per process: argument of is_md5_hash_matching

vars == <<fs, pc, filename, depth, response, raw_resp, handles, matching,
          log, result, error, before, prev, original_md5_hash>>

NoResponse == [ok |-> FALSE, body |-> <<>>]
NoError == [type |-> "None", msg |-> <<>>]
NoResult == "None"
NoPrev == [kind |-> "other", result |-> NoResult, body_ok |-> FALSE]

Ended == {"idle", "done", "failed", "crashed"}

Count(l, op) == Cardinality({i \in 1..Len(l) : l[i][1] = op})
Has(l, op) == Count(l, op) > 0
First(l, op) == CHOOSE i \in 1..Len(l) : l[i][1] = op /\ \A j \in 1..(i - 1) : l[j][1] # op

\* files a process never touches: the unregistered name is only ever
\* present with one fixed content
InitFiles(f) == IF f \in Registered THEN FileStates ELSE {Absent, File(<<0>>)}

Init ==
    /\ fs \in {f \in [Paths -> FileStates] : \A n \in Paths : f[n] \in InitFiles(n)}
    /\ pc = [p \in Procs |-> "idle"]
    /\ filename = [p \in Procs |-> NONEXISTENT]
    /\ depth = [p \in Procs |-> 0]
    /\ response = [p \in Procs |-> NoResponse]
    /\ raw_resp = [p \in Procs |-> <<>>]
    /\ handles = [p \in Procs |-> {}]
    /\ matching = [p \in Procs |-> "unchecked"]
    /\ log = [p \in Procs |-> <<>>]
    /\ result = [p \in Procs |-> NoResult]
    /\ error = [p \in Procs |-> NoError]
    /\ before = [p \in Procs |-> Absent]
    /\ prev = [p \in Procs |-> NoPrev]
    /\ original_md5_hash = [p \in Procs |-> <<>>]

\* ------------------------------------------------------------ operations
Set(v, p, x) == [v EXCEPT ![p] = x]
Logged(p, op, target) == Set(log, p, Append(log[p], <<op, target>>))

\* variant: the message lists only the first key
valid_assets_first_only == <<AssetKeys[1]>>

\* line 94-97: the message of the ValueError
valid_assets ==
    [i \in 1..(2 * Len(AssetKeys) - 1) |->
        IF i % 2 = 1 THEN AssetKeys[(i + 1) \div 2] ELSE ", "]
InvalidAsset ==
    [type |-> "ValueError",
     msg |-> <<"Invalid asset. It should be one of the following: ">> \o valid_assets \o <<".">>]
Exception(type) == [type |-> type, msg |-> <<>>]

\* an exception leaves every frame (no handler anywhere): the call fails;
\* the `with` blocks of lines 78-81 release what they hold on the way out
Raise(p, exc) ==
    /\ pc' = Set(pc, p, "failed")
    /\ error' = Set(error, p, exc)
    /\ handles' = Set(handles, p, handles[p] \ {"file", "unlinked_file", "raw_resp"})

\* the checksum of a byte string as the registry records it
Checksum(data) == hexdigest(hash_new(data))

\* how the call that just ended relates to a new call on `name`:
\*   cold_return: it found no file and returned;
\*   write_crash: the process died with the destination file open and
\*                bytes of the response still to copy (body_ok: the
\*                response carried the registered content);
\*   repair_fetch_failed: it found a file, removed it, and the fetch that
\*                followed failed
PrevOf(p, name) ==
    IF pc[p] = "idle" \/ filename[p] # name THEN NoPrev
    ELSE IF pc[p] = "done" /\ ~before[p].exists
         THEN [kind |-> "cold_return", result |-> result[p], body_ok |-> FALSE]
    ELSE IF /\ pc[p] = "crashed"
            /\ Count(log[p], "open_wb") > Count(log[p], "close")
            /\ raw_resp[p] # <<>>
         THEN [kind |-> "write_crash", result |-> result[p],
               body_ok |-> (name \in Registered /\ Checksum(response[p].body) = ASSETS[name][2])]
    ELSE IF /\ pc[p] = "failed" /\ before[p].exists /\ Has(log[p], "remove")
            /\ error[p].type \in {"HTTPError", "ConnectionError"}
         THEN [kind |-> "repair_fetch_failed", result |-> result[p], body_ok |-> FALSE]
    ELSE [kind |-> "other", result |-> result[p], body_ok |-> FALSE]

\* line 44/67: a caller invokes download_assets(asset_name)
Call(p, asset_name) ==
    LET name == IF asset_name.isAssets THEN asset_name.filename ELSE asset_name.str IN
    /\ pc[p] \in Ended
    /\ filename' = Set(filename, p, name)
    /\ pc' = Set(pc, p, "L69")
    /\ depth' = Set(depth, p, 1)
    /\ response' = Set(response, p, NoResponse)
    /\ raw_resp' = Set(raw_resp, p, <<>>)
    /\ handles' = Set(handles, p, {})
    /\ matching' = Set(matching, p, "unchecked")
    /\ log' = Set(log, p, <<<<"call", name>>>>)
    /\ result' = Set(result, p, NoResult)
    /\ error' = Set(error, p, NoError)
    /\ before' = Set(before, p, fs[name])
    /\ prev' = Set(prev, p, PrevOf(p, name))
    /\ original_md5_hash' = Set(original_md5_hash, p, <<>>)
    /\ UNCHANGED fs

\* variant: line 69 without the existence test
L69_ignores_existing_file(p) ==
    /\ pc[p] = "L69"
    /\ pc' = Set(pc, p, IF filename[p] \in Registered THEN "L71" ELSE "L84")
    /\ UNCHANGED <<fs, filename, depth, response, raw_resp, handles, matching,
                   log, result, error, before, prev, original_md5_hash>>

\* line 69: if not Path(filename).exists() and filename in ASSETS
L69(p) ==
    /\ pc[p] = "L69"
    /\ pc' = Set(pc, p, IF ~fs[filename[p]].exists /\ filename[p] \in Registered
                        THEN "L71" ELSE "L84")
    /\ UNCHANGED <<fs, filename, depth, response, raw_resp, handles, matching,
                   log, result, error, before, prev, original_md5_hash>>

\* variant: the URL of one fixed asset is fetched whatever the name
L71_fixed_url(p) ==
    /\ pc[p] = "L71"
    /\ log' = Logged(p, "get", ASSETS[VEHICLES][1])
    /\ \/ /\ Raise(p, Exception("ConnectionError"))
          /\ UNCHANGED response
       \/ \E ok \in BOOLEAN, body \in Contents :
            /\ ~ok => body = <<>>
            /\ response' = Set(response, p, [ok |-> ok, body |-> body])
            /\ handles' = Set(handles, p, handles[p] \cup {"response"})
            /\ pc' = Set(pc, p, "L72")
            /\ UNCHANGED error
    /\ UNCHANGED <<fs, filename, depth, raw_resp, matching, result, before, prev, original_md5_hash>>

\* line 71: response = get(ASSETS[filename][0], stream=True, ...)
\* the collaborator either raises, or answers with a status and a body
L71(p) ==
    /\ pc[p] = "L71"
    /\ log' = Logged(p, "get", ASSETS[filename[p]][1])
    /\ \/ /\ Raise(p, Exception("ConnectionError"))
          /\ UNCHANGED response
       \/ \E ok \in BOOLEAN, body \in Contents :
            /\ ~ok => body = <<>>
            /\ response' = Set(response, p, [ok |-> ok, body |-> body])
            /\ handles' = Set(handles, p, handles[p] \cup {"response"})
            /\ pc' = Set(pc, p, "L72")
            /\ UNCHANGED error
    /\ UNCHANGED <<fs, filename, depth, raw_resp, matching, result, before, prev, original_md5_hash>>

\* variant: on a failed status the file found at the start is put back
L72_restores_on_failure(p) ==
    /\ pc[p] = "L72"
    /\ IF response[p].ok
       THEN pc' = Set(pc, p, "L76") /\ UNCHANGED <<error, handles, fs>>
       ELSE /\ Raise(p, Exception("HTTPError"))
            /\ fs' = [fs EXCEPT ![filename[p]] = before[p]]
    /\ UNCHANGED <<filename, depth, response, raw_resp, matching, log,
                   result, before, prev, original_md5_hash>>

\* variant: line 72 missing, the status is never looked at
L72_status_ignored(p) ==
    /\ pc[p] = "L72"
    /\ pc' = Set(pc, p, "L76")
    /\ UNCHANGED <<fs, filename, depth, response, raw_resp, handles, matching,
                   log, result, error, before, prev, original_md5_hash>>

\* line 72: response.raise_for_status()
L72(p) ==
    /\ pc[p] = "L72"
    /\ IF response[p].ok
       THEN pc' = Set(pc, p, "L76") /\ UNCHANGED <<error, handles>>
       ELSE Raise(p, Exception("HTTPError"))
    /\ UNCHANGED <<fs, filename, depth, response, raw_resp, matching, log,
                   result, before, prev, original_md5_hash>>

\* line 75-76: folder_path.parent.mkdir(parents=True, exist_ok=True)
L76(p) ==
    /\ pc[p] = "L76"
    /\ log' = Logged(p, "mkdir", filename[p])
    /\ \E ok \in BOOLEAN :
         IF ok
         THEN pc' = Set(pc, p, "L81") /\ UNCHANGED <<error, handles>>
         ELSE Raise(p, Exception("OSError"))
    /\ UNCHANGED <<fs, filename, depth, response, raw_resp, matching,
                   result, before, prev, original_md5_hash>>

\* variant: the destination opened is the file of one fixed asset
L81_opens_fixed_name(p) ==
    /\ pc[p] = "L81"
    /\ \E ok \in BOOLEAN :
         IF ok
         THEN /\ fs' = [fs EXCEPT ![VEHICLES] = File(<<>>)]
              /\ raw_resp' = Set(raw_resp, p, response[p].body)
              /\ handles' = Set(handles, p, handles[p] \cup {"raw_resp", "file"})
              /\ log' = Logged(p, "open_wb", VEHICLES)
              /\ pc' = Set(pc, p, "L82")
              /\ UNCHANGED error
         ELSE /\ Raise(p, Exception("OSError"))
              /\ UNCHANGED <<fs, raw_resp, log>>
    /\ UNCHANGED <<filename, depth, response, matching, result, before, prev,
                   original_md5_hash>>

\* line 78-81: enter tqdm.wrapattr(response.raw, ...) and
\* folder_path.open("wb"), which creates or truncates the file
L81(p) ==
    /\ pc[p] = "L81"
    /\ \E ok \in BOOLEAN :
         IF ok
         THEN /\ fs' = [fs EXCEPT ![filename[p]] = File(<<>>)]
              /\ raw_resp' = Set(raw_resp, p, response[p].body)
              /\ handles' = Set(handles, p, handles[p] \cup {"raw_resp", "file"})
              /\ log' = Logged(p, "open_wb", filename[p])
              /\ pc' = Set(pc, p, "L82")
              /\ UNCHANGED error
         ELSE /\ Raise(p, Exception("OSError"))
              /\ UNCHANGED <<fs, raw_resp, log>>
    /\ UNCHANGED <<filename, depth, response, matching, result, before, prev, original_md5_hash>>

\* variant: the chunk is consumed from the stream but never reaches the file
L82_write_drops_chunk(p) ==
    /\ pc[p] = "L82"
    /\ raw_resp[p] # <<>>
    /\ raw_resp' = Set(raw_resp, p, Tail(raw_resp[p]))
    /\ log' = Logged(p, "write", filename[p])
    /\ UNCHANGED <<fs, pc, filename, depth, response, handles, matching, result,
                   error, before, prev, original_md5_hash>>

\* what a file holds after byte b is written at offset `at` (0-based) of
\* data: the byte is replaced, appended, or lands after a gap of zeros
WriteAt(data, at, b) ==
    [i \in 1..(IF at + 1 > Len(data) THEN at + 1 ELSE Len(data)) |->
        IF i = at + 1 THEN b ELSE IF i <= Len(data) THEN data[i] ELSE 0]

\* line 82: copyfileobj moves the next chunk from the stream to the file,
\* at the position this handle has reached.  A handle whose file was
\* removed meanwhile writes to a file no path leads to any more.
L82_write(p) ==
    /\ pc[p] = "L82"
    /\ raw_resp[p] # <<>>
    /\ fs' = [fs EXCEPT ![filename[p]] =
                IF @.exists /\ "file" \in handles[p]
                THEN File(WriteAt(@.data, Len(response[p].body) - Len(raw_resp[p]),
                                  Head(raw_resp[p])))
                ELSE @]
    /\ raw_resp' = Set(raw_resp, p, Tail(raw_resp[p]))
    /\ log' = Logged(p, "write", filename[p])
    /\ UNCHANGED <<pc, filename, depth, response, handles, matching, result,
                   error, before, prev, original_md5_hash>>

\* variant: the exception of the copy is swallowed and the call returns
L82_fail_swallowed(p) ==
    /\ pc[p] = "L82"
    /\ handles' = Set(handles, p, handles[p] \ {"file", "unlinked_file", "raw_resp"})
    /\ pc' = Set(pc, p, "L99")
    /\ UNCHANGED <<fs, filename, depth, response, raw_resp, matching, log,
                   result, error, before, prev, original_md5_hash>>

\* line 82: reading the stream or writing the file raises mid-copy
L82_fail(p) ==
    /\ pc[p] = "L82"
    /\ Raise(p, Exception("OSError"))
    /\ UNCHANGED <<fs, filename, depth, response, raw_resp, matching, log,
                   result, before, prev, original_md5_hash>>

\* variant: the file just written is verified like a file found on disk
L82_close_then_verify(p) ==
    /\ pc[p] = "L82"
    /\ raw_resp[p] = <<>>
    /\ handles' = Set(handles, p, handles[p] \ {"file", "unlinked_file", "raw_resp"})
    /\ log' = Logged(p, "close", filename[p])
    /\ pc' = Set(pc, p, "L86")
    /\ UNCHANGED <<fs, filename, depth, response, raw_resp, matching, result,
                   error, before, prev, original_md5_hash>>

\* line 82/81/78: end of stream; both `with` blocks exit and close the file.
\* A streamed response whose body was read to the end gives its connection
\* back by itself; nothing in lines 71-99 closes `response` otherwise.
L82_close(p) ==
    /\ pc[p] = "L82"
    /\ raw_resp[p] = <<>>
    /\ handles' = Set(handles, p, handles[p] \ {"file", "unlinked_file", "raw_resp", "response"})
    /\ log' = Logged(p, "close", filename[p])
    /\ pc' = Set(pc, p, "L99")
    /\ UNCHANGED <<fs, filename, depth, response, raw_resp, matching, result,
                   error, before, prev, original_md5_hash>>

\* line 84: elif Path(filename).exists(), else lines 93-97
L84(p) ==
    /\ pc[p] = "L84"
    /\ IF fs[filename[p]].exists
       THEN pc' = Set(pc, p, "L86") /\ UNCHANGED <<error, handles>>
       ELSE Raise(p, InvalidAsset)
    /\ UNCHANGED <<fs, filename, depth, response, raw_resp, matching, log,
                   result, before, prev, original_md5_hash>>

\* line 86: the arguments of is_md5_hash_matching are evaluated first:
\* ASSETS[filename] raises KeyError for a name that is not a key
L86(p) ==
    /\ pc[p] = "L86"
    /\ IF filename[p] \in Registered
       THEN /\ pc' = Set(pc, p, "L33")
            /\ original_md5_hash' = Set(original_md5_hash, p, ASSETS[filename[p]][2])
            /\ UNCHANGED <<error, handles>>
       ELSE /\ Raise(p, Exception("KeyError"))
            /\ UNCHANGED original_md5_hash
    /\ UNCHANGED <<fs, filename, depth, response, raw_resp, matching, log,
                   result, before, prev>>

\* expected hashes a direct caller may pass: the digest of every content
\* and one string that is the digest of none
Hashes == {hexdigest(hash_new(c)) : c \in Contents} \cup {<<"0">>}

\* line 22: a caller invokes is_md5_hash_matching(filename, original_md5_hash)
\* directly (no download_assets frame: depth 0)
is_md5_hash_matching_call(p, name, hash) ==
    /\ pc[p] \in Ended
    /\ filename' = Set(filename, p, name)
    /\ original_md5_hash' = Set(original_md5_hash, p, hash)
    /\ pc' = Set(pc, p, "L33")
    /\ depth' = Set(depth, p, 0)
    /\ response' = Set(response, p, NoResponse)
    /\ raw_resp' = Set(raw_resp, p, <<>>)
    /\ handles' = Set(handles, p, {})
    /\ matching' = Set(matching, p, "unchecked")
    /\ log' = Set(log, p, <<<<"call_md5", name>>>>)
    /\ result' = Set(result, p, NoResult)
    /\ error' = Set(error, p, NoError)
    /\ before' = Set(before, p, fs[name])
    /\ prev' = Set(prev, p, NoPrev)
    /\ UNCHANGED fs

\* where is_md5_hash_matching returns to: line 86 of download_assets, or
\* the direct caller
AfterMd5(p) == IF depth[p] > 0 THEN "L86b" ELSE "L41"

\* variant: line 33-34 missing, the file is opened without the test
L33_no_existence_test(p) ==
    /\ pc[p] = "L33"
    /\ pc' = Set(pc, p, "L36")
    /\ UNCHANGED <<fs, filename, depth, response, raw_resp, handles, matching, log,
                   result, error, before, prev, original_md5_hash>>

\* line 33-34: if not os.path.exists(filename): return False
L33(p) ==
    /\ pc[p] = "L33"
    /\ IF fs[filename[p]].exists
       THEN pc' = Set(pc, p, "L36") /\ UNCHANGED matching
       ELSE pc' = Set(pc, p, AfterMd5(p)) /\ matching' = Set(matching, p, "False")
    /\ UNCHANGED <<fs, filename, depth, response, raw_resp, handles, log,
                   result, error, before, prev, original_md5_hash>>

\* variant: an existing file is taken as matching without comparing
is_md5_hash_matching_exists_only(data, md5) == TRUE

\* line 41: computed_md5_hash.hexdigest() == original_md5_hash
is_md5_hash_matching(data, md5) ==
    hexdigest(hash_new(data)) = md5

\* line 36-41: read the whole file, hash it, compare
L36(p) ==
    /\ pc[p] = "L36"
    /\ IF fs[filename[p]].exists
       THEN /\ matching' = Set(matching, p,
                 IF is_md5_hash_matching(fs[filename[p]].data, original_md5_hash[p])
                 THEN "True" ELSE "False")
            /\ log' = Logged(p, "read", filename[p])
            /\ pc' = Set(pc, p, AfterMd5(p))
            /\ UNCHANGED <<error, handles>>
       ELSE /\ Raise(p, Exception("FileNotFoundError"))
            /\ UNCHANGED <<matching, log>>
    /\ UNCHANGED <<fs, filename, depth, response, raw_resp, result, before, prev,
                   original_md5_hash>>

\* line 34/41: the direct caller receives the boolean
L41(p) ==
    /\ pc[p] = "L41"
    /\ pc' = Set(pc, p, "done")
    /\ result' = Set(result, p, matching[p])
    /\ UNCHANGED <<fs, filename, depth, response, raw_resp, handles, matching, log,
                   error, before, prev, original_md5_hash>>

\* variant: the test of line 86 without its `not`
L86b_inverted(p) ==
    /\ pc[p] = "L86b"
    /\ pc' = Set(pc, p, IF matching[p] = "True" THEN "L88" ELSE "L99")
    /\ UNCHANGED <<fs, filename, depth, response, raw_resp, handles, matching,
                   log, result, error, before, prev, original_md5_hash>>

\* line 86: if not is_md5_hash_matching(...), else line 91
L86b(p) ==
    /\ pc[p] = "L86b"
    /\ pc' = Set(pc, p, IF matching[p] = "False" THEN "L88" ELSE "L99")
    /\ UNCHANGED <<fs, filename, depth, response, raw_resp, handles, matching,
                   log, result, error, before, prev, original_md5_hash>>

\* the handles after process p removed its file: a handle another process
\* holds on that file stays open, but on a file that has no name any more
Unlinked(p) ==
    [q \in Procs |->
        IF q # p /\ filename[q] = filename[p] /\ "file" \in handles[q]
        THEN (handles[q] \ {"file"}) \cup {"unlinked_file"}
        ELSE handles[q]]

\* variant: a failed removal is ignored and the repair goes on
L88_failure_ignored(p) ==
    /\ pc[p] = "L88"
    /\ \E ok \in BOOLEAN :
         IF ok /\ fs[filename[p]].exists
         THEN /\ fs' = [fs EXCEPT ![filename[p]] = Absent]
              /\ log' = Logged(p, "remove", filename[p])
         ELSE UNCHANGED <<fs, log>>
    /\ pc' = Set(pc, p, "L89")
    /\ UNCHANGED <<error, handles, filename, depth, response, raw_resp, matching,
                   result, before, prev, original_md5_hash>>

\* variant: the removal reports success but the file is still there
L88_file_stays(p) ==
    /\ pc[p] = "L88"
    /\ log' = Logged(p, "remove", filename[p])
    /\ pc' = Set(pc, p, "L89")
    /\ UNCHANGED <<fs, error, handles, filename, depth, response, raw_resp, matching,
                   result, before, prev, original_md5_hash>>

\* line 88: os.remove(filename)
L88(p) ==
    /\ pc[p] = "L88"
    /\ \E ok \in BOOLEAN :
         IF ~fs[filename[p]].exists
         THEN /\ Raise(p, Exception("FileNotFoundError"))
              /\ UNCHANGED <<fs, log>>
         ELSE IF ok
         THEN /\ fs' = [fs EXCEPT ![filename[p]] = Absent]
              /\ log' = Logged(p, "remove", filename[p])
              /\ pc' = Set(pc, p, "L89")
              /\ handles' = Unlinked(p)
              /\ UNCHANGED error
         ELSE /\ Raise(p, Exception("OSError"))
              /\ UNCHANGED <<fs, log>>
    /\ UNCHANGED <<filename, depth, response, raw_resp, matching, result,
                   before, prev, original_md5_hash>>

\* variant: line 89 returns the name without calling download_assets again
L89_no_redownload(p) ==
    /\ pc[p] = "L89"
    /\ pc' = Set(pc, p, "L99")
    /\ UNCHANGED <<fs, filename, depth, response, raw_resp, handles, matching,
                   log, result, error, before, prev, original_md5_hash>>

\* line 89: return download_assets(filename): a nested frame begins
L89(p) ==
    /\ pc[p] = "L89"
    /\ depth[p] < MaxDepth
    /\ depth' = Set(depth, p, depth[p] + 1)
    /\ log' = Logged(p, "call", filename[p])
    /\ pc' = Set(pc, p, "L69")
    /\ UNCHANGED <<fs, filename, response, raw_resp, handles, matching,
                   result, error, before, prev, original_md5_hash>>

\* variant: a file that does not have the registered checksum is refused
\* at the return
L99_raises_on_mismatch(p) ==
    /\ pc[p] = "L99"
    /\ IF /\ filename[p] \in Registered
          /\ ~(fs[filename[p]].exists
               /\ hexdigest(hash_new(fs[filename[p]].data)) = ASSETS[filename[p]][2])
       THEN /\ Raise(p, Exception("ValueError"))
            /\ UNCHANGED <<depth, result>>
       ELSE /\ UNCHANGED <<error, handles>>
            /\ IF depth[p] > 1
               THEN /\ depth' = Set(depth, p, depth[p] - 1)
                    /\ UNCHANGED <<pc, result>>
               ELSE /\ depth' = Set(depth, p, 0)
                    /\ pc' = Set(pc, p, "done")
                    /\ result' = Set(result, p, filename[p])
    /\ UNCHANGED <<fs, filename, response, raw_resp, matching, log,
                   before, prev, original_md5_hash>>

\* line 99 (and line 89 in the frames below): return filename
L99(p) ==
    /\ pc[p] = "L99"
    /\ IF depth[p] > 1
       THEN /\ depth' = Set(depth, p, depth[p] - 1)
            /\ UNCHANGED <<pc, result>>
       ELSE /\ depth' = Set(depth, p, 0)
            /\ pc' = Set(pc, p, "done")
            /\ result' = Set(result, p, filename[p])
    /\ UNCHANGED <<fs, filename, response, raw_resp, handles, matching, log,
                   error, before, prev, original_md5_hash>>

\* the process dies between two steps; what it wrote so far stays on disk
Crash(p) ==
    /\ pc[p] \notin Ended
    /\ pc' = Set(pc, p, "crashed")
    /\ handles' = Set(handles, p, {})
    /\ UNCHANGED <<fs, filename, depth, response, raw_resp, matching, log,
                   result, error, before, prev, original_md5_hash>>

\* single-threaded execution: one process, calls in succession
Next ==
    \/ \E asset_name \in Args : Call(Main, asset_name)
    \/ L69(Main)
    \/ L71(Main)
    \/ L72(Main)
    \/ L76(Main)
    \/ L81(Main)
    \/ L82_write(Main)
    \/ L82_fail(Main)
    \/ L82_close(Main)
    \/ L84(Main)
    \/ L86(Main)
    \/ L33(Main)
    \/ L36(Main)
    \/ L86b(Main)
    \/ L88(Main)
    \/ L89(Main)
    \/ L99(Main)
    \/ Crash(Main)

Spec == Init /\ [][Next]_vars

\* one statement of the running call
Step(p) ==
    \/ L69(p)
    \/ L71(p)
    \/ L72(p)
    \/ L76(p)
    \/ L81(p)
    \/ L82_write(p)
    \/ L82_fail(p)
    \/ L82_close(p)
    \/ L84(p)
    \/ L86(p)
    \/ L33(p)
    \/ L36(p)
    \/ L86b(p)
    \/ L88(p)
    \/ L89(p)
    \/ L99(p)

\* single-threaded execution in a process that does not die: the
\* interpreter executes the statement it has reached, and every call into
\* the transfer collaborator and the filesystem comes back (answer or
\* exception), so a step that is possible is eventually taken
NextRun ==
    \/ \E asset_name \in Args : Call(Main, asset_name)
    \/ Step(Main)

SpecRun == Init /\ [][NextRun]_vars /\ WF_vars(Step(Main))

\* two callers at once, one call each, for the same registered asset;
\* their statements interleave in any order
CallSame(p) ==
    \E name \in Registered :
        /\ pc[p] = "idle"
        /\ \A q \in Procs \ {p} : pc[q] = "idle" \/ filename[q] = name
        /\ Call(p, StrArg(name))

NextRace ==
    \/ \E p \in Procs : CallSame(p)
    \/ \E p \in Procs : Step(p)

\* the raced file starts in any state; no other file exists
InitRace ==
    /\ Init
    /\ Cardinality({n \in Paths : fs[n].exists}) <= 1
    /\ ~fs[NONEXISTENT].exists

SpecRace == InitRace /\ [][NextRace]_vars

\* the checksum helper called on its own, on any path with any hash
NextMd5 ==
    \/ \E name \in Paths, hash \in Hashes : is_md5_hash_matching_call(Main, name, hash)
    \/ L33(Main)
    \/ L36(Main)
    \/ L41(Main)

SpecMd5 == Init /\ [][NextMd5]_vars

TypeOK ==
    /\ fs \in [Paths -> FileStates]
    /\ \A p \in Procs : depth[p] \in 0..MaxDepth /\ matching[p] \in {"unchecked", "True", "False"}

\* ------------------------------------------------------------------------
\* Properties of the single-threaded resolver (process Main)
\* ------------------------------------------------------------------------
\* the current call of Main, what it was given and what it did
f == filename[Main]
did == log[Main]
Returned == pc[Main] = "done"
Failed == pc[Main] = "failed"
IsRegistered == f \in Registered
\* the file the call found / the file now / the body received has the
\* checksum the registry records for the call's identifier
FoundMatching == before[Main].exists /\ Checksum(before[Main].data) = ASSETS[f][2]
FileMatches == fs[f].exists /\ Checksum(fs[f].data) = ASSETS[f][2]
BodyMatches == Checksum(response[Main].body) = ASSETS[f][2]
Cold == IsRegistered /\ ~before[Main].exists
CacheHit == IsRegistered /\ FoundMatching
Corrupt == IsRegistered /\ before[Main].exists /\ ~FoundMatching
\* nothing was fetched, deleted, truncated or written
NoEffect == \A op \in {"get", "remove", "open_wb", "write"} : ~Has(did, op)
\* a download to the call's path ran to completion as its last step
Downloaded ==
    /\ Has(did, "get") /\ response[Main].ok
    /\ did[Len(did)] = <<"close", f>>
    /\ fs[f] = File(response[Main].body)
GetsFrom(url) == \A i \in 1..Len(did) : did[i][1] = "get" => did[i][2] = url

\* C1 (as stated): whenever download_assets returns for a registered
\* identifier, the file exists and its checksum is the registered one,
\* whatever the transfer delivered.
C1_AsStated == (Returned /\ IsRegistered) => FileMatches

\* C1 (amended): on return the file exists; if the call downloaded, the
\* file holds exactly the delivered bytes and so has the registered
\* checksum exactly when those bytes have it; if the call did not
\* download, the file has the registered checksum.
C1_ReturnPostcondition ==
    (Returned /\ IsRegistered) =>
        /\ fs[f].exists
        /\ IF Has(did, "get")
           THEN fs[f] = File(response[Main].body) /\ (FileMatches <=> BodyMatches)
           ELSE FileMatches

\* a return after a repair whose download delivered the registered bytes
C1_Witness == Returned /\ Corrupt /\ Has(did, "get") /\ FileMatches

\* C2 (as stated): a returned cold fetch did one fetch from the registered
\* URL, no delete, wrote the fetched bytes, returned the path, and the file
\* now has the registered checksum.
C2_AsStated ==
    (Returned /\ Cold) =>
        /\ Count(did, "get") = 1 /\ GetsFrom(ASSETS[f][1])
        /\ ~Has(did, "remove")
        /\ fs[f] = File(response[Main].body)
        /\ result[Main] = f
        /\ FileMatches

\* C2 (amended): a cold call never deletes and fetches at most once, only
\* from the identifier's registered URL; when it returns it has fetched
\* exactly once, the file holds exactly the fetched bytes, the identifier's
\* path is returned, and the checksum is the registered one exactly when
\* the fetched bytes have it.
C2_ColdFetch ==
    Cold =>
        /\ Count(did, "get") <= 1 /\ GetsFrom(ASSETS[f][1])
        /\ ~Has(did, "remove")
        /\ Returned =>
             /\ Count(did, "get") = 1
             /\ Count(did, "open_wb") = 1
             /\ fs[f] = File(response[Main].body)
             /\ result[Main] = f
             /\ FileMatches <=> BodyMatches

C2_Witness == Returned /\ Cold /\ f = PEOPLE_WALKING /\ FileMatches /\ Count(did, "write") = 1

\* C3: a call that finds a registered file with the registered checksum
\* never fetches, deletes, truncates or writes, leaves the file as found at
\* every step, never fails, and returns the identifier's path.
C3_CacheHit ==
    /\ [](CacheHit => /\ NoEffect
                      /\ fs[f] = before[Main]
                      /\ ~Failed
                      /\ Returned => result[Main] = f)
    /\ [][(CacheHit /\ CacheHit') => fs' = fs]_vars

C3_Witness == Returned /\ CacheHit /\ Has(did, "read") /\ result[Main] = f

\* C4 (as stated): a returned call that found a corrupt file did exactly
\* one delete and then one download, and the file now has the registered
\* checksum.
C4_AsStated ==
    (Returned /\ Corrupt) =>
        /\ Count(did, "remove") = 1 /\ Count(did, "get") = 1
        /\ First(did, "remove") < First(did, "get")
        /\ result[Main] = f
        /\ FileMatches

\* C4 (amended): a call that finds a corrupt file deletes at most once and
\* fetches at most once, and never starts the fetch before the delete;
\* when it returns it has deleted once and then downloaded once, returns
\* the identifier's path, and the file holds the downloaded bytes, whose
\* checksum is the registered one exactly when the delivered bytes have it.
C4_Repair ==
    Corrupt =>
        /\ Count(did, "remove") <= 1 /\ Count(did, "get") <= 1
        /\ Has(did, "get") => (Has(did, "remove") /\ First(did, "remove") < First(did, "get"))
        /\ Has(did, "remove") => (Has(did, "read") /\ First(did, "read") < First(did, "remove"))
        /\ Returned =>
             /\ Count(did, "remove") = 1 /\ Count(did, "get") = 1
             /\ Downloaded
             /\ result[Main] = f
             /\ FileMatches <=> BodyMatches

C4_Witness == Returned /\ Corrupt /\ Has(did, "remove") /\ FileMatches

\* C5: a call with an identifier that is not registered and has no local
\* file never returns; it touches nothing (no fetch, delete, open, write,
\* read or mkdir; the filesystem stays as it was); and when it fails it
\* fails with the ValueError whose message names every registry key.
UnknownNoFile == ~IsRegistered /\ ~before[Main].exists /\ pc[Main] # "idle"
C5_UnknownAsset ==
    /\ [](UnknownNoFile =>
            /\ did = <<<<"call", f>>>>
            /\ ~Returned
            /\ Failed => /\ error[Main].type = "ValueError"
                         /\ \A k \in Registered :
                              \E i \in 1..Len(error[Main].msg) : error[Main].msg[i] = k)
    /\ [][(UnknownNoFile /\ UnknownNoFile') => fs' = fs]_vars

C5_Witness == Failed /\ UnknownNoFile /\ error[Main].type = "ValueError"

\* C6 (as stated): a call with an unregistered identifier whose file
\* exists fails with the same ValueError as without a file (the message
\* listing the registry keys), and the file is not read, deleted or
\* modified.
UnknownWithFile == ~IsRegistered /\ before[Main].exists /\ pc[Main] # "idle"
C6_AsStated ==
    UnknownWithFile =>
        /\ did = <<<<"call", f>>>>
        /\ fs[f] = before[Main]
        /\ ~Returned
        /\ Failed => error[Main] = InvalidAsset

\* C7 (as stated): the second of two successive calls on an identifier
\* that was cold, once it returns, returned the same path, left the file
\* as the first call left it and fetched, deleted and wrote nothing.
AfterColdReturn == IsRegistered /\ prev[Main].kind = "cold_return"
C7_AsStated ==
    (AfterColdReturn /\ Returned) =>
        /\ result[Main] = prev[Main].result
        /\ fs[f] = before[Main]
        /\ NoEffect

\* C7 (amended): after a cold call returned, the file exists, and a second
\* call that returns returns the same path; if the first call's download
\* left a file with the registered checksum, the second call is a cache
\* hit: at every step nothing is fetched, deleted or written and the file
\* is as the first call left it, and it does not fail.
C7_Idempotence ==
    AfterColdReturn =>
        /\ before[Main].exists
        /\ Returned => result[Main] = prev[Main].result
        /\ FoundMatching => (NoEffect /\ fs[f] = before[Main] /\ ~Failed)

C7_Witness == AfterColdReturn /\ Returned /\ FoundMatching /\ result[Main] = f

\* C8: a fetch that ends in a non-success outcome ends the call at once:
\* from the non-success response the only step is the failure, which
\* leaves the filesystem alone; the failed call made exactly one fetch,
\* never created the directory, opened or wrote the destination, and
\* returned nothing; this on the cold path and on the repair path alike.
TransferFailed == Failed /\ error[Main].type \in {"HTTPError", "ConnectionError"}
C8_TransferFailure ==
    /\ [](TransferFailed =>
            /\ Count(did, "get") = 1
            /\ \A op \in {"mkdir", "open_wb", "write", "close"} : ~Has(did, op)
            /\ result[Main] = NoResult
            /\ ~fs[f].exists)
    /\ []((Has(did, "get") /\ ~response[Main].ok /\ pc[Main] # "L72") => ~Returned)
    /\ [][(pc[Main] = "L72" /\ ~response[Main].ok) =>
            (pc'[Main] \in {"failed", "crashed"} /\ fs' = fs /\ log' = log)]_vars

\* a failed status met while repairing a corrupt file
C8_Witness == TransferFailed /\ error[Main].type = "HTTPError" /\ Has(did, "remove")

\* C9 (as stated): the call that follows a crash in the middle of writing
\* the registered content to the file, once it returns, has checked the
\* file, deleted it and downloaded it again, and the file has the
\* registered checksum.
AfterWriteCrash == IsRegistered /\ prev[Main].kind = "write_crash"
C9_AsStated ==
    (AfterWriteCrash /\ prev[Main].body_ok /\ Returned) =>
        /\ Count(did, "read") = 1 /\ Count(did, "remove") = 1 /\ Count(did, "get") = 1
        /\ FileMatches

\* C9 (amended): a crash in the middle of writing leaves a file; when the
\* interrupted transfer carried the registered content, that file does not
\* have the registered checksum; whenever the file left behind does not
\* have it, the next call reads it once, deletes it before fetching, and
\* when it returns it has deleted once and downloaded once and the file
\* holds the downloaded bytes, with the registered checksum exactly when
\* those bytes have it.
C9_CrashRecovery ==
    AfterWriteCrash =>
        /\ before[Main].exists
        /\ prev[Main].body_ok => ~FoundMatching
        /\ ~FoundMatching =>
             /\ Count(did, "read") <= 1 /\ Count(did, "remove") <= 1
             /\ Has(did, "get") =>
                  (Has(did, "remove") /\ First(did, "remove") < First(did, "get"))
             /\ Returned =>
                  /\ Count(did, "read") = 1 /\ Count(did, "remove") = 1
                  /\ Count(did, "get") = 1
                  /\ Downloaded
                  /\ FileMatches <=> BodyMatches

C9_Witness ==
    /\ AfterWriteCrash /\ prev[Main].body_ok /\ Returned
    /\ Has(did, "remove") /\ FileMatches

\* C10: a call that returns returns the path of a registered identifier
\* without any error, and in that call either the file it found was read
\* and had the registered checksum (and nothing was changed), or a
\* download to that path ran to completion as the last step; a failed
\* call returns nothing.
C10_NoPartialSuccess ==
    /\ Returned =>
         /\ IsRegistered /\ result[Main] = f /\ error[Main] = NoError
         /\ \/ matching[Main] = "True" /\ Has(did, "read") /\ NoEffect /\ FileMatches
            \/ Downloaded
    /\ Failed => (result[Main] = NoResult /\ error[Main] # NoError)

C10_Witness == Returned /\ Downloaded /\ Has(did, "remove") /\ ~FileMatches

\* ------------------------------------------------------------------------
\* Properties of is_md5_hash_matching called on its own (SpecMd5)
\* ------------------------------------------------------------------------
\* C11: for a path that does not exist, and whatever the expected hash,
\* is_md5_hash_matching raises nothing, opens and reads no file, changes
\* nothing, and what it returns is False.
Md5OnMissing == did # <<>> /\ did[1] = <<"call_md5", f>> /\ ~before[Main].exists
C11_MissingFileIsFalse ==
    /\ [](Md5OnMissing =>
            /\ ~Failed
            /\ ~Has(did, "read")
            /\ handles[Main] = {}
            /\ fs[f] = before[Main]
            /\ Returned => result[Main] = "False")
    /\ [][(Md5OnMissing /\ Md5OnMissing') => fs' = fs]_vars

\* the helper returned for a missing file although the hash passed is the
\* digest of some content
C11_Witness ==
    /\ Md5OnMissing /\ Returned /\ result[Main] = "False"
    /\ original_md5_hash[Main] = hexdigest(hash_new(<<1>>))

\* ------------------------------------------------------------------------
\* Work done by one call (SpecRun for termination, Spec otherwise)
\* ------------------------------------------------------------------------
\* C12: a top-level call performs at most one checksum check, one delete,
\* one nested download_assets call (never more than two frames) and one
\* download, and every call that has begun ends by returning or failing.
C12_BoundedRepair ==
    /\ [](/\ Count(did, "read") <= 1
          /\ Count(did, "remove") <= 1
          /\ Count(did, "call") <= 2
          /\ depth[Main] <= 2
          /\ Count(did, "get") <= 1
          /\ Count(did, "open_wb") <= 1)
    /\ ((pc[Main] \notin Ended) ~> (pc[Main] \in {"done", "failed"}))

\* a call that used the whole allowance: check, delete, nested call, download
C12_Witness ==
    /\ Returned /\ Count(did, "call") = 2
    /\ Count(did, "read") = 1 /\ Count(did, "remove") = 1 /\ Count(did, "get") = 1

\* C13 (as stated): when the file found was corrupt and the re-download
\* has completed with bytes that again do not have the registered
\* checksum, the call does not return.
SecondCorrupt ==
    /\ Corrupt /\ Has(did, "close")
    /\ response[Main].ok /\ ~BodyMatches
C13_AsStated == SecondCorrupt => ~Returned

\* C13 (amended): when the file found was corrupt and the re-download has
\* completed with bytes that again do not have the registered checksum,
\* the call does not fail: the mismatching file stays as written, it was
\* checked only once (before the delete), the only step left is the
\* return, and what is returned is the identifier's path.
C13_SecondCorruptReturned ==
    /\ [](SecondCorrupt =>
            /\ ~Failed
            /\ fs[f] = File(response[Main].body) /\ ~FileMatches
            /\ Count(did, "read") = 1 /\ First(did, "read") < First(did, "get")
            /\ Returned => result[Main] = f)
    /\ [][(SecondCorrupt /\ pc[Main] = "L99") =>
            (pc'[Main] \in {"L99", "done", "crashed"} /\ fs' = fs /\ log' = log)]_vars

C13_Witness == SecondCorrupt /\ Returned /\ result[Main] = f /\ Count(did, "write") = 1

\* C14: the file is read for its checksum only as the first thing of a
\* top-level call that found it present; no read ever follows a fetch,
\* an open, a write or a close; when the copy ends, control goes to the
\* return (or the call fails), and a call that downloaded returns with
\* the close of the written file as its last I/O step.
C14_VerifyOnlyExisting ==
    /\ [](/\ Has(did, "read") =>
               (before[Main].exists /\ did[1][1] = "call" /\ did[2] = <<"read", f>>
                /\ Count(did, "read") = 1)
          /\ \A i \in 1..Len(did) : \A j \in 1..Len(did) :
               (i < j /\ did[i][1] \in {"get", "open_wb", "write", "close"})
                   => did[j][1] # "read"
          /\ (Returned /\ Has(did, "get")) => did[Len(did)] = <<"close", f>>)
    /\ [][(pc[Main] = "L82" /\ pc'[Main] # "L82") =>
            pc'[Main] \in {"L99", "failed", "crashed"}]_vars

\* a cold download of other bytes returned without ever being read back
C14_Witness == Returned /\ Cold /\ Has(did, "close") /\ ~Has(did, "read") /\ ~FileMatches

\* C15: a filesystem failure ends the call: the failing step leaves the
\* filesystem as it was, nothing runs after the failure, nothing is
\* returned; in particular when the delete of a corrupt file does not
\* delete, the call fails there with the file unchanged, without nested
\* call and without fetch.
FsFailed == Failed /\ error[Main].type = "OSError"
DeleteFailed == FsFailed /\ did[Len(did)][1] = "read"
C15_FilesystemFailure ==
    /\ [](FsFailed =>
            /\ result[Main] = NoResult
            /\ did[Len(did)][1] \in {"read", "mkdir", "open_wb", "write"}
            /\ did[Len(did)][1] = "mkdir" => ~Has(did, "open_wb")
            /\ DeleteFailed =>
                 /\ Count(did, "call") = 1 /\ ~Has(did, "get") /\ ~Has(did, "remove")
                 /\ fs[f] = before[Main])
    /\ [][(pc[Main] # "failed" /\ pc'[Main] = "failed") => fs' = fs]_vars
    /\ [][(pc[Main] = "failed" /\ pc'[Main] = "failed") => (fs' = fs /\ log' = log)]_vars
    /\ [][(pc[Main] = "L88" /\ fs'[f].exists) =>
            (pc'[Main] \in {"failed", "crashed"} /\ fs' = fs /\ log' = log)]_vars

C15_Witness == DeleteFailed /\ Corrupt /\ fs[f] = before[Main]

\* C17 (as stated): when a call has ended, by return or by an error, no
\* file handle and no response stream it opened is still open.
C17_AsStated == (Returned \/ Failed) => handles[Main] = {}

\* C18: from the delete of a corrupt file until a file is opened for
\* writing, the path holds no file; when the fetch of the repair fails,
\* the call fails with nothing written and the file absent, so not as the
\* call found it; the call that follows finds no file and goes down the
\* download branch: no check, no delete, no nested call.
RepairFetchFailed == Corrupt /\ TransferFailed
AfterRepairFetchFailed == prev[Main].kind = "repair_fetch_failed"
C18_RepairNotRolledBack ==
    /\ (Corrupt /\ Has(did, "remove") /\ ~Has(did, "open_wb")) => ~fs[f].exists
    /\ RepairFetchFailed =>
         /\ Has(did, "remove") /\ ~Has(did, "open_wb") /\ ~Has(did, "write")
         /\ ~fs[f].exists /\ fs[f] # before[Main]
         /\ result[Main] = NoResult
    /\ AfterRepairFetchFailed =>
         /\ Cold
         /\ ~Has(did, "read") /\ ~Has(did, "remove") /\ Count(did, "call") = 1
         /\ pc[Main] \notin {"L84", "L86", "L33", "L36", "L86b", "L88", "L89"}

C18_Witness == AfterRepairFetchFailed /\ Returned /\ Has(did, "get") /\ FileMatches

\* C19: every I/O step of a call is on the call's own file name, or is
\* the fetch of the URL registered for it, and no step of a call changes
\* the file of any other name.  (The registry is a constant of the model:
\* nothing in lines 22-99 assigns to ASSETS.)
C19_FrameAcrossIdentifiers ==
    /\ [](\A i \in 1..Len(did) :
            \/ did[i][2] = f
            \/ did[i][1] = "get" /\ IsRegistered /\ did[i][2] = ASSETS[f][1])
    /\ [][\A n \in Paths : n # filename[Main] => fs'[n] = fs[n]]_vars

\* a download for one asset ended while the corrupt file of the other
\* asset and the file of an unregistered name are still there
C19_Witness ==
    /\ Returned /\ f = PEOPLE_WALKING /\ Has(did, "write")
    /\ fs[VEHICLES] = File(<<0>>) /\ fs[NONEXISTENT] = File(<<0>>)

\* ------------------------------------------------------------------------
\* Two calls at once for the same asset (SpecRace)
\* ------------------------------------------------------------------------
\* another call has deleted or truncated the file of p's call
Interfered(p) ==
    \E q \in Procs \ {p} :
        /\ pc[q] # "idle" /\ filename[q] = filename[p]
        /\ Has(log[q], "remove") \/ Has(log[q], "open_wb")
\* the call stands at os.remove of line 88 and the file is already gone:
\* its only step from here raises FileNotFoundError
RemoveOfMissing(p) == pc[p] = "L88" /\ ~fs[filename[p]].exists
\* the call failed because the file vanished under it (the open of line
\* 36 or the os.remove of line 88)
FailedOnMissing(p) == pc[p] = "failed" /\ error[p].type = "FileNotFoundError"
\* more than one nested download_assets call
RecursedTwice(p) == Count(log[p], "call") > 2
\* p has returned, and the file is absent, or is not what p downloaded,
\* or (p did not download) does not have the registered checksum
ReturnedUnsound(p) ==
    /\ pc[p] = "done"
    /\ ~(/\ fs[filename[p]].exists
         /\ IF Has(log[p], "get")
            THEN fs[filename[p]] = File(response[p].body)
            ELSE Checksum(fs[filename[p]].data) = ASSETS[filename[p]][2])

\* C16: nothing keeps two calls for the same asset apart, and each of the
\* failures named (a delete of a file already deleted, more than one
\* nested call, a return over a file that is absent, truncated or is not
\* the file the call checked or wrote) occurs only when the other call
\* has deleted or truncated the file during this call's run; the witness
\* shows such a state is reached.
C16_BadOnlyByInterference ==
    \A p \in Procs :
        (\/ RemoveOfMissing(p) \/ FailedOnMissing(p)
         \/ RecursedTwice(p) \/ ReturnedUnsound(p)) => Interfered(p)

\* Main downloaded the registered bytes, closed the file and returned,
\* while the other call, inside its own copy, has truncated that file
C16_Witness ==
    /\ ReturnedUnsound(Main)
    /\ Has(did, "close") /\ response[Main].body = Published(f)
    /\ \E q \in Procs \ {Main} :
         /\ filename[q] = f /\ pc[q] = "L82" /\ raw_resp[q] # <<>>
         /\ "file" \in handles[q]
    /\ fs[f] = File(<<>>)

\* further states of the race, each reached as well
C16_DeleteOfDeletedReached == \E p \in Procs : RemoveOfMissing(p)
C16_RecursedTwiceReached == \E p \in Procs : RecursedTwice(p)
C16_ReturnedOverAbsentReached ==
    \E p \in Procs : pc[p] = "done" /\ ~fs[filename[p]].exists

====
